---- MODULE Spec2Model ----
(***************************************************************************)
(* The authorization-and-cooldown gate of src/framework/dispatch/common.rs *)
(* (check_permissions_and_cooldown, missing_permissions, user_permissions) *)
(* as a state machine.  Invocations are concurrent tasks; each runs the    *)
(* five stages for itself and shares only the command's cooldown tracker,  *)
(* which sits behind a mutex.  The cache, the HTTP client, the permission  *)
(* computation and the custom check are external collaborators: their      *)
(* answers are drawn nondeterministically when the code consults them and  *)
(* every consultation is recorded in the invocation's call record `calls`. *)
(* The set of cached guilds is state, fixed over a behaviour.  The tracker  *)
(* (remaining_cooldown, start_cooldown) lies outside common.rs; it follows  *)
(* section 4.4 of the design, with the per-user granularity configured.     *)
(*                                                                         *)
(* Spec:     two concurrent invocations of a command whose two permission  *)
(*           stages are live; no call record is kept.                      *)
(* GateSpec: one invocation at a time, of every command under every        *)
(*           option set, with its call record.                             *)
(***************************************************************************)
EXTENDS Integers, Sequences, FiniteSets, TLC

\* ------------------------------------------------------------------ bounds
MaxTime == 3          \* the clock runs over 0..MaxTime
UserWindow == 2       \* the per-user cooldown duration configured for the command

Invocations == {1, 2}
Users == {"u1", "u2"}
Bot == "bot"
Owners == {"u1"}
Guilds == {"g1"}
Perms == {"p1", "p2"}
Errors == {"e1", "e2"}

\* ------------------------------------------------------------ Option, Result
None == <<>>
Some(x) == <<x>>
Ok(x) == <<"Ok", x>>
Err(e) == <<"Err", e>>
IsOk(r) == r[1] = "Ok"

\* Option::or
OptionOr(a, b) == IF a # None THEN a ELSE b

\* Result::ok
ResultOk(r) == IF IsOk(r) THEN Some(r[2]) ELSE None

\* serenity::Permissions::all() and ::empty()
PermissionsAll == Perms
PermissionsEmpty == {}

\* ------------------------------------------------- answers of collaborators
ChannelKinds == {"Guild", "Other", "Absent"}
PermResults == {Err("perm")} \cup {Ok(p) : p \in SUBSET Perms}
FetchResults == {Ok("member"), Err("http")}
CheckResults == {Ok(TRUE), Ok(FALSE)} \cup {Err(e) : e \in Errors}
GuildIds == {None} \cup {Some(g) : g \in Guilds}

\* --------------------------------------------------------------- outcomes
Continue == [kind |-> "continue"]
NoResult == [kind |-> "none"]
OkResult == [kind |-> "Ok"]
NotAnOwner == [kind |-> "NotAnOwner"]
MissingUserPermissions(m) == [kind |-> "MissingUserPermissions", missing_permissions |-> m]
MissingBotPermissions(m) == [kind |-> "MissingBotPermissions", missing_permissions |-> m]
CommandCheckFailed == [kind |-> "CommandCheckFailed"]
CommandError(e) == [kind |-> "Command", error |-> e, location |-> "Check"]
CooldownHit(r) == [kind |-> "CooldownHit", remaining_cooldown |-> r]

VARIABLES
    cmd,        \* the command descriptor (static configuration)
    options,    \* the framework options: owners, command_check
    cache,      \* the guilds present in the local cache
    cooldowns,  \* cmd.cooldowns: the tracker behind the mutex
    mutex,      \* holder of the tracker's mutex, 0 when free
    now,        \* the clock the tracker reads
    pc,         \* each invocation's position
    ctx,        \* each invocation's context: author, guild_id
    observed,   \* the invocations whose calls are recorded
    calls,      \* each observed invocation's record of the calls it made and their answers
    result      \* what each invocation returned

vars == <<cmd, options, cache, cooldowns, mutex, now, pc, ctx, observed, calls, result>>
config == <<cmd, options, cache, observed>>

NoCtx == [author |-> "nobody", guild_id |-> None]

\* ------------------------------------------------------- user_permissions
\* Faulty variant: no early return for direct messages; the cache is asked for a guild
\* that does not exist.
user_permissionsNoDm(guild_id, guild, channel, member, fetched, computed) ==
    IF guild_id = None \/ ~guild THEN None
    ELSE IF channel # "Guild" THEN None
    ELSE IF ~member /\ ~IsOk(fetched) THEN None
    ELSE ResultOk(computed)

\* Faulty variant: a guild missing from the cache is treated like a direct message.
user_permissionsUncachedAll(guild_id, guild, channel, member, fetched, computed) ==
    IF guild_id = None \/ ~guild THEN Some(PermissionsAll)
    ELSE IF channel # "Guild" THEN None
    ELSE IF ~member /\ ~IsOk(fetched) THEN None
    ELSE ResultOk(computed)

\* The resolver, given the answers of the collaborators it consults.
user_permissions(guild_id, guild, channel, member, fetched, computed) ==
    IF guild_id = None THEN Some(PermissionsAll)
    ELSE IF ~guild THEN None
    ELSE IF channel # "Guild" THEN None
    ELSE IF ~member /\ ~IsOk(fetched) THEN None
    ELSE ResultOk(computed)

\* ctx.cache.guild(guild_id) finds the guild
CacheGuild(cached, guild_id) == guild_id # None /\ guild_id[1] \in cached

\* Faulty variant: the member is fetched even when the guild's cache holds it.
AwaitsFetchIgnoresCache(guild_id, guild, channel, member) ==
    guild_id # None /\ guild /\ channel = "Guild"

\* The resolver reaches ctx.http.get_member(..).await
AwaitsFetch(guild_id, guild, channel, member) ==
    guild_id # None /\ guild /\ channel = "Guild" /\ ~member

\* The collaborators consulted before the member is resolved, in order.
CacheCalls(stage, guild_id, guild, channel, member) ==
    << <<"user_permissions", stage, guild_id>> >>
    \o (IF guild_id = None THEN <<>>
        ELSE << <<"cache.guild", stage, guild>> >>
             \o (IF ~guild THEN <<>>
                 ELSE << <<"channels.get", stage, channel>> >>
                      \o (IF channel # "Guild" THEN <<>>
                          ELSE << <<"members.get", stage, member>> >>)))

\* ---------------------------------------------------- missing_permissions
\* Faulty variant: no early return for an empty requirement.
ResolvesAlways(required_permissions) == TRUE

\* Whether missing_permissions calls the resolver at all.
ResolvesPermissions(required_permissions) == required_permissions # PermissionsEmpty

\* Faulty variant: the difference is taken the wrong way round.
missing_permissionsReversed(required_permissions, permissions) ==
    IF ~ResolvesPermissions(required_permissions) THEN Some(PermissionsEmpty)
    ELSE IF permissions # None THEN Some(permissions[1] \ required_permissions)
    ELSE None

missing_permissions(required_permissions, permissions) ==
    IF ~ResolvesPermissions(required_permissions) THEN Some(PermissionsEmpty)
    ELSE IF permissions # None THEN Some(required_permissions \ permissions[1])
    ELSE None

\* ------------------------------------------------ stages of the gate
\* Faulty variant: the owner test without its negation.
OwnerStageInverted(owners_only, owners, author) ==
    IF owners_only /\ author \in owners THEN NotAnOwner ELSE Continue

OwnerStage(owners_only, owners, author) ==
    IF owners_only /\ author \notin owners THEN NotAnOwner ELSE Continue

\* Faulty variant: unknown user permissions let the invocation through.
UserStageFailOpen(missing) ==
    IF missing # None /\ missing[1] = PermissionsEmpty THEN Continue
    ELSE IF missing # None THEN MissingUserPermissions(Some(missing[1]))
    ELSE Continue

UserStage(missing) ==
    IF missing # None /\ missing[1] = PermissionsEmpty THEN Continue
    ELSE IF missing # None THEN MissingUserPermissions(Some(missing[1]))
    ELSE MissingUserPermissions(None)

\* Faulty variant: the bot-permission stage never denies.
BotStageIgnoresMissing(missing) == Continue

\* Faulty variant: unknown bot permissions deny, as unknown user permissions do.
BotStageFailClosed(missing) ==
    IF missing # None /\ missing[1] = PermissionsEmpty THEN Continue
    ELSE IF missing # None THEN MissingBotPermissions(missing[1])
    ELSE MissingBotPermissions(PermissionsEmpty)

BotStage(missing) ==
    IF missing # None /\ missing[1] = PermissionsEmpty THEN Continue
    ELSE IF missing # None THEN MissingBotPermissions(missing[1])
    ELSE Continue

\* Faulty variant: the framework-wide check takes precedence over the command's.
SelectCheckDefaultFirst(cmd_check, command_check) == OptionOr(command_check, cmd_check)

SelectCheck(cmd_check, command_check) == OptionOr(cmd_check, command_check)

\* Faulty variant: a check's error is reported as a failed check.
CheckStageSwallowsError(r) ==
    IF r = Ok(TRUE) THEN Continue ELSE CommandCheckFailed

\* Faulty variant: a check that returns false does not stop the invocation.
CheckStageIgnoresFalse(r) ==
    IF IsOk(r) THEN Continue ELSE CommandError(r[2])

CheckStage(r) ==
    IF r = Ok(TRUE) THEN Continue
    ELSE IF r = Ok(FALSE) THEN CommandCheckFailed
    ELSE CommandError(r[2])

\* Faulty variant: an outstanding cooldown does not stop the invocation.
CooldownStageIgnoresHit(remaining) == Continue

CooldownStage(remaining) ==
    IF remaining # None THEN CooldownHit(remaining[1]) ELSE Continue

\* ------------------------------------------------------ cooldown tracker
\* The tracker of the command, configured with a per-user duration.
\* Outstanding wait of one granularity: the configured duration minus the time
\* since the last invocation, when that is still positive.
CooldownLeft(duration, last_invocation, t) ==
    IF duration = None \/ last_invocation = None THEN None
    ELSE IF t - last_invocation[1] < duration[1]
         THEN Some(duration[1] - (t - last_invocation[1]))
         ELSE None

remaining_cooldown(cd, c, t) ==
    CooldownLeft(cd.user, cd.user_invocations[c.author], t)

start_cooldown(cd, c, t) ==
    [cd EXCEPT !.user_invocations[c.author] = Some(t)]

\* ------------------------------------------------------------------ Init
Commands ==
    [owners_only : BOOLEAN,
     required_permissions : SUBSET Perms,
     required_bot_permissions : SUBSET Perms,
     check : {None, Some("cmd_check")}]

FrameworkOptions ==
    [owners : {Owners}, command_check : {None, Some("default_check")}]

\* The commands of the concurrent specification: both permission stages are
\* live, so every suspension point of the gate can be reached.
BusyCommands ==
    {c \in Commands : /\ c.required_permissions = {"p1"}
                      /\ c.required_bot_permissions = {"p2"}}

Start ==
    /\ cache \in SUBSET Guilds
    /\ cooldowns = [user |-> Some(UserWindow),
                    user_invocations |-> [u \in Users |-> None]]
    /\ mutex = 0
    /\ now = 0
    /\ pc = [i \in Invocations |-> "idle"]
    /\ ctx = [i \in Invocations |-> NoCtx]
    /\ calls = [i \in Invocations |-> <<>>]
    /\ result = [i \in Invocations |-> NoResult]

\* Concurrent invocations of one command; no call record is kept.
Init ==
    /\ cmd \in BusyCommands
    /\ options \in FrameworkOptions
    /\ observed = {}
    /\ Start

\* One observed invocation at a time, of any command under any options.
GateInit ==
    /\ cmd \in Commands
    /\ options \in FrameworkOptions
    /\ observed = {1}
    /\ Start

\* --------------------------------------------------------------- actions
\* The resolver's own lookups: kept in `calls` while their stage is the last one
\* run, dropped when the invocation moves into the next stage.
ResolverInternal ==
    {"cache.guild", "channels.get", "members.get", "get_member",
     "get_member_ret", "user_permissions_in", "user_permissions_ret"}

KeepCall(e) == e[1] \notin ResolverInternal

Compact(log) == SelectSeq(log, KeepCall)

Record(i, log) == IF i \in observed THEN log ELSE <<>>

Goto(i, next, log) ==
    /\ pc' = [pc EXCEPT ![i] = next]
    /\ calls' = [calls EXCEPT ![i] = Record(i, log)]
    /\ UNCHANGED result

Return(i, outcome, log) ==
    /\ pc' = [pc EXCEPT ![i] = "done"]
    /\ calls' = [calls EXCEPT ![i] = Record(i, log)]
    /\ result' = [result EXCEPT ![i] = outcome]

Decide(i, decision, next, log) ==
    IF decision = Continue THEN Goto(i, next, log) ELSE Return(i, decision, log)

\* Faulty variant: an owner is let through to the custom check at once.
InvokeOwnerBypass(i) ==
    /\ pc[i] = "idle"
    /\ \E author \in Users, guild_id \in GuildIds :
         /\ ctx' = [ctx EXCEPT ![i] = [author |-> author, guild_id |-> guild_id]]
         /\ IF author \in options.owners
            THEN Goto(i, "check", <<>>)
            ELSE Decide(i, OwnerStage(cmd.owners_only, options.owners, author),
                        "user_perm", <<>>)
    /\ UNCHANGED <<config, cooldowns, mutex, now>>

\* The command router dispatches an invocation; the ownership stage runs.
Invoke(i) ==
    /\ pc[i] = "idle"
    /\ \E author \in Users, guild_id \in GuildIds :
         /\ ctx' = [ctx EXCEPT ![i] = [author |-> author, guild_id |-> guild_id]]
         /\ Decide(i, OwnerStage(cmd.owners_only, options.owners, author),
                   "user_perm", <<>>)
    /\ UNCHANGED <<config, cooldowns, mutex, now>>

StageUser(i, stage) == IF stage = "user" THEN ctx[i].author ELSE Bot
StageRequired(stage) ==
    IF stage = "user" THEN cmd.required_permissions ELSE cmd.required_bot_permissions
StageDecision(stage, missing) ==
    IF stage = "user" THEN UserStage(missing) ELSE BotStage(missing)
\* Faulty variant: the bot-permission stage is left out.
StageNextSkipsBot(stage) == "check"

StageNext(stage) == IF stage = "user" THEN "bot_perm" ELSE "check"

FinishStage(i, stage, missing, log) ==
    Decide(i, StageDecision(stage, missing), StageNext(stage),
           log \o << <<"missing_permissions", stage, missing>> >>)

\* The end of user_permissions and of missing_permissions after it.
FinishResolve(i, stage, permissions, log) ==
    FinishStage(i, stage, missing_permissions(StageRequired(stage), permissions),
                log \o << <<"user_permissions_ret", stage, permissions>> >>)

\* An answer is drawn from S only when the collaborator is asked.
Asked(asked, S, unasked) == IF asked THEN S ELSE {unasked}

\* missing_permissions up to its first suspension point, or to its end.
PermBegin(i, stage) ==
    /\ pc[i] = stage \o "_perm"
    /\ IF ~ResolvesPermissions(StageRequired(stage))
       THEN FinishStage(i, stage, missing_permissions(StageRequired(stage), None),
                        Compact(calls[i]))
       ELSE LET g == ctx[i].guild_id
                guild == CacheGuild(cache, g)
            IN
            \E channel \in Asked(guild, ChannelKinds, "Absent") :
            \E member \in Asked(channel = "Guild", BOOLEAN, FALSE) :
              LET log == Compact(calls[i]) \o CacheCalls(stage, g, guild, channel, member)
              IN IF AwaitsFetch(g, guild, channel, member)
                 THEN Goto(i, stage \o "_fetch",
                           log \o << <<"get_member", stage, StageUser(i, stage)>> >>)
                 ELSE \E computed \in Asked(member, PermResults, Err("perm")) :
                        FinishResolve(i, stage,
                            user_permissions(g, guild, channel, member,
                                             Err("http"), computed),
                            IF member
                            THEN log \o << <<"user_permissions_in", stage, computed>> >>
                            ELSE log)
    /\ UNCHANGED <<config, cooldowns, mutex, now, ctx>>

\* ctx.http.get_member returns; the resolver and the stage run to their end.
FetchReturn(i, stage) ==
    /\ pc[i] = stage \o "_fetch"
    /\ \E fetched \in FetchResults :
       \E computed \in Asked(IsOk(fetched), PermResults, Err("perm")) :
         FinishResolve(i, stage,
             user_permissions(ctx[i].guild_id, CacheGuild(cache, ctx[i].guild_id),
                              "Guild", FALSE, fetched, computed),
             calls[i] \o << <<"get_member_ret", stage, fetched>> >>
                      \o (IF IsOk(fetched)
                          THEN << <<"user_permissions_in", stage, computed>> >>
                          ELSE <<>>))
    /\ UNCHANGED <<config, cooldowns, mutex, now, ctx>>

\* Faulty variant: the cooldown is started before the check is awaited.
CheckCallCommitsFirst(i) ==
    /\ pc[i] = "check"
    /\ LET check == SelectCheck(cmd.check, options.command_check)
       IN IF check # None
          THEN /\ Goto(i, "check_wait",
                       Compact(calls[i])
                           \o << <<"start_cooldown", "cooldown", now>>,
                                 <<"check", "check", check[1]>> >>)
               /\ cooldowns' = start_cooldown(cooldowns, ctx[i], now)
          ELSE /\ Goto(i, "cd_lock1", Compact(calls[i]))
               /\ cooldowns' = cooldowns
    /\ UNCHANGED <<config, mutex, now, ctx>>

\* Faulty variant: the tracker is locked before the check is awaited.
CheckCallHoldingLock(i) ==
    /\ pc[i] = "check"
    /\ mutex = 0
    /\ LET check == SelectCheck(cmd.check, options.command_check)
       IN IF check # None
          THEN /\ Goto(i, "check_wait",
                       Compact(calls[i]) \o << <<"check", "check", check[1]>> >>)
               /\ mutex' = i
          ELSE /\ Goto(i, "cd_lock1", Compact(calls[i]))
               /\ mutex' = mutex
    /\ UNCHANGED <<config, cooldowns, now, ctx>>

\* cmd.check.or(options.command_check): call the selected check, or go on.
CheckCall(i) ==
    /\ pc[i] = "check"
    /\ LET check == SelectCheck(cmd.check, options.command_check)
       IN IF check # None
          THEN Goto(i, "check_wait",
                    Compact(calls[i]) \o << <<"check", "check", check[1]>> >>)
          ELSE Goto(i, "cd_lock1", Compact(calls[i]))
    /\ UNCHANGED <<config, cooldowns, mutex, now, ctx>>

\* The check returns.
CheckReturn(i) ==
    /\ pc[i] = "check_wait"
    /\ \E r \in CheckResults :
         Decide(i, CheckStage(r), "cd_lock1",
                calls[i] \o << <<"check_ret", "check", r>> >>)
    /\ UNCHANGED <<config, cooldowns, mutex, now, ctx>>

\* cooldowns.lock() of line 118
LockQuery(i) ==
    /\ pc[i] = "cd_lock1"
    /\ mutex = 0
    /\ mutex' = i
    /\ Goto(i, "cd_query", calls[i])
    /\ UNCHANGED <<config, cooldowns, now, ctx>>

\* Faulty variant: the guard of the query is kept in a binding that lives on.
QueryKeepsLock(i) ==
    /\ pc[i] = "cd_query"
    /\ mutex = i
    /\ LET remaining == remaining_cooldown(cooldowns, ctx[i], now)
       IN Decide(i, CooldownStage(remaining), "cd_lock2",
                 calls[i] \o << <<"remaining_cooldown", "cooldown", remaining>> >>)
    /\ mutex' = mutex
    /\ UNCHANGED <<config, cooldowns, now, ctx>>

\* Faulty variant: a denied query restarts the cooldown.
QueryRestartsCooldown(i) ==
    /\ pc[i] = "cd_query"
    /\ mutex = i
    /\ LET remaining == remaining_cooldown(cooldowns, ctx[i], now)
       IN /\ Decide(i, CooldownStage(remaining), "cd_lock2",
                    calls[i] \o << <<"remaining_cooldown", "cooldown", remaining>> >>)
          /\ cooldowns' = IF remaining # None
                          THEN start_cooldown(cooldowns, ctx[i], now)
                          ELSE cooldowns
    /\ mutex' = 0
    /\ UNCHANGED <<config, now, ctx>>

\* remaining_cooldown under the lock; the guard is dropped at the end of the
\* statement; then the branch of lines 119-124.
Query(i) ==
    /\ pc[i] = "cd_query"
    /\ mutex = i
    /\ LET remaining == remaining_cooldown(cooldowns, ctx[i], now)
       IN Decide(i, CooldownStage(remaining), "cd_lock2",
                 calls[i] \o << <<"remaining_cooldown", "cooldown", remaining>> >>)
    /\ mutex' = 0
    /\ UNCHANGED <<config, cooldowns, now, ctx>>

\* cooldowns.lock() of line 125
LockCommit(i) ==
    /\ pc[i] = "cd_lock2"
    /\ mutex = 0
    /\ mutex' = i
    /\ Goto(i, "cd_commit", calls[i])
    /\ UNCHANGED <<config, cooldowns, now, ctx>>

\* start_cooldown under the lock, the guard dropped, Ok(()) returned.
Commit(i) ==
    /\ pc[i] = "cd_commit"
    /\ mutex = i
    /\ cooldowns' = start_cooldown(cooldowns, ctx[i], now)
    /\ mutex' = 0
    /\ Return(i, OkResult, calls[i] \o << <<"start_cooldown", "cooldown", now>> >>)
    /\ UNCHANGED <<config, now, ctx>>

\* The caller has taken the result; the slot serves the next invocation.
Finish(i) ==
    /\ pc[i] = "done"
    /\ pc' = [pc EXCEPT ![i] = "idle"]
    /\ ctx' = [ctx EXCEPT ![i] = NoCtx]
    /\ calls' = [calls EXCEPT ![i] = <<>>]
    /\ result' = [result EXCEPT ![i] = NoResult]
    /\ UNCHANGED <<config, cooldowns, mutex, now>>

\* The enclosing dispatch drops the future at one of its suspension points.
Cancel(i) ==
    /\ pc[i] \in {"user_fetch", "bot_fetch", "check_wait"}
    /\ pc' = [pc EXCEPT ![i] = "idle"]
    /\ ctx' = [ctx EXCEPT ![i] = NoCtx]
    /\ calls' = [calls EXCEPT ![i] = <<>>]
    /\ UNCHANGED <<config, cooldowns, mutex, now, result>>

Tick ==
    /\ now < MaxTime
    /\ now' = now + 1
    /\ UNCHANGED <<config, cooldowns, mutex, pc, ctx, calls, result>>

Step(i) ==
    \/ Invoke(i)
    \/ PermBegin(i, "user")
    \/ FetchReturn(i, "user")
    \/ PermBegin(i, "bot")
    \/ FetchReturn(i, "bot")
    \/ CheckCall(i)
    \/ CheckReturn(i)
    \/ LockQuery(i)
    \/ Query(i)
    \/ LockCommit(i)
    \/ Commit(i)
    \/ Finish(i)
    \/ Cancel(i)

Next == (\E i \in Invocations : Step(i)) \/ Tick

Spec == Init /\ [][Next]_vars

GateNext == Step(1) \/ Tick

GateSpec == GateInit /\ [][GateNext]_vars

\* ------------------------------------------------------- fair scheduling
\* Concurrent invocations, none of them dropped, of a command with both
\* permission stages and a check, in a cached guild or a direct message.
LiveInit ==
    /\ cmd \in {c \in BusyCommands : ~c.owners_only /\ c.check # None}
    /\ options \in {o \in FrameworkOptions : o.command_check = None}
    /\ cache = Guilds
    /\ observed = {}
    /\ Start

\* The steps of the gate's own code and the returns of its collaborators.
Advance(i) ==
    \/ PermBegin(i, "user")
    \/ FetchReturn(i, "user")
    \/ PermBegin(i, "bot")
    \/ FetchReturn(i, "bot")
    \/ CheckCall(i)
    \/ CheckReturn(i)
    \/ Query(i)
    \/ Commit(i)

\* The two acquisitions of the tracker's mutex.
Acquire(i) == LockQuery(i) \/ LockCommit(i)

LiveNext ==
    \/ \E i \in Invocations : Invoke(i) \/ Advance(i) \/ Acquire(i) \/ Finish(i)
    \/ Tick

\* Every invocation keeps running and the fetch and the check return.  A
\* lock() that stays possible is taken; std::sync::Mutex promises no order of
\* acquisition, so a waiter that finds the mutex free only now and then may be
\* overtaken each time.
LiveSpec ==
    /\ LiveInit
    /\ [][LiveNext]_vars
    /\ \A i \in Invocations : WF_vars(Advance(i)) /\ WF_vars(Acquire(i))

\* ================================================================ claims
\* Reading the call record.
Made(log, name, stage) ==
    {k \in 1..Len(log) : log[k][1] = name /\ log[k][2] = stage}
Answers(log, name, stage) == {log[k][3] : k \in Made(log, name, stage)}
StageCalls(log, stage) == {k \in 1..Len(log) : log[k][2] = stage}
Denials ==
    {"NotAnOwner", "MissingUserPermissions", "MissingBotPermissions",
     "CommandCheckFailed", "Command", "CooldownHit"}
Denied(i) == result[i].kind \in Denials
Running(i) == pc[i] # "idle"
IsOwnerDenied(i) == cmd.owners_only /\ ctx[i].author \notin options.owners

\* The record shows that stages 1 to 4 and the cooldown query all passed.
PassedAll(i, log) ==
    /\ ~IsOwnerDenied(i)
    /\ Answers(log, "missing_permissions", "user") = {Some({})}
    /\ Answers(log, "missing_permissions", "bot") \in {{Some({})}, {None}}
    /\ \/ Made(log, "check", "check") = {} /\ Made(log, "check_ret", "check") = {}
       \/ Answers(log, "check_ret", "check") = {Ok(TRUE)}
    /\ Answers(log, "remaining_cooldown", "cooldown") = {None}

C1_DeniedNeverCommitted ==
    \A i \in observed :
        Denied(i) => Made(calls[i], "start_cooldown", "cooldown") = {}
C1_OnlyCommitMutates ==
    [][cooldowns' # cooldowns =>
          \E i \in observed :
              /\ pc[i] = "cd_commit" /\ pc'[i] = "done"
              /\ result'[i] = OkResult
              /\ PassedAll(i, calls[i])
              /\ Made(calls[i], "start_cooldown", "cooldown") = {}
              /\ \A j \in Invocations \ {i} : result'[j] = result[j]]_vars

\* C1: a denied invocation never mutates the cooldown tracker.  Every step that
\* changes the tracker is the commit step of an invocation that returns Ok in
\* that step and whose record shows the ownership, user-permission,
\* bot-permission, custom-check and cooldown-query stages all passed before
\* start_cooldown was called; and no denied invocation has called
\* start_cooldown.
C1_DenialLeavesTracker == []C1_DeniedNeverCommitted /\ C1_OnlyCommitMutates
\* A denial by the custom check of an invocation whose author has a cooldown
\* running, which the denial leaves in place.
C1_Witness ==
    /\ pc[1] = "done"
    /\ result[1] = CommandCheckFailed
    /\ cooldowns.user_invocations[ctx[1].author] # None

\* C2: the user-permission stage is fail-closed.  Whenever missing_permissions
\* for the invoking user returned None, the invocation has returned
\* MissingUserPermissions with missing_permissions = None and its record holds
\* no call of a later stage (bot permissions, custom check, cooldown).
C2_UserFailClosed ==
    \A i \in observed :
        None \in Answers(calls[i], "missing_permissions", "user") =>
            /\ pc[i] = "done"
            /\ result[i] = MissingUserPermissions(None)
            /\ StageCalls(calls[i], "bot") = {}
            /\ StageCalls(calls[i], "check") = {}
            /\ StageCalls(calls[i], "cooldown") = {}
            /\ mutex = 0
C2_Witness ==
    /\ None \in Answers(calls[1], "missing_permissions", "user")
    /\ Made(calls[1], "get_member_ret", "user") # {}
    /\ ~cmd.owners_only

\* C3: the bot-permission stage is fail-open.  When missing_permissions for the
\* bot returned None the stage has passed: the state the stage ends in stands at
\* the custom check with no result, the invocation is from then on in the
\* custom-check or cooldown stage or has returned their outcome, and it is never
\* denied with MissingBotPermissions; every MissingBotPermissions denial follows
\* a missing_permissions answer Some(m) with m non-empty, which it carries.
C3_BotFailOpen ==
    \A i \in observed :
        /\ None \in Answers(calls[i], "missing_permissions", "bot") =>
              /\ result[i].kind \in
                    {"none", "CommandCheckFailed", "Command", "CooldownHit", "Ok"}
              /\ pc[i] \in {"check", "check_wait", "cd_lock1", "cd_query",
                            "cd_lock2", "cd_commit", "done"}
              /\ Made(calls[i], "user_permissions_ret", "bot") # {}
                    => pc[i] = "check" /\ result[i] = NoResult
        /\ result[i].kind = "MissingBotPermissions" =>
              /\ result[i].missing_permissions # {}
              /\ Answers(calls[i], "missing_permissions", "bot")
                    = {Some(result[i].missing_permissions)}
C3_Witness ==
    /\ pc[1] = "check"
    /\ Answers(calls[1], "missing_permissions", "bot") = {None}
    /\ Answers(calls[1], "missing_permissions", "user") = {Some({})}
    /\ Made(calls[1], "user_permissions", "user") # {}

\* C4: ownership is checked first.  An invocation of an owners_only command by
\* a user outside the owner set has returned NotAnOwner and nothing else, and
\* its record is empty: neither the resolver nor any later stage was consulted.
C4_OwnershipFirst ==
    \A i \in observed :
        Running(i) /\ IsOwnerDenied(i) =>
            /\ pc[i] = "done"
            /\ result[i] = NotAnOwner
            /\ calls[i] = <<>>
C4_Witness ==
    /\ result[1] = NotAnOwner
    /\ cmd.required_permissions # {}
    /\ ctx[1].guild_id # None /\ ~CacheGuild(cache, ctx[1].guild_id)

StageDenial(stage) ==
    IF stage = "user" THEN "MissingUserPermissions" ELSE "MissingBotPermissions"
\* The stage has run to its end for invocation i.
UserStageOver(i) ==
    Running(i) /\ ~IsOwnerDenied(i) /\ pc[i] \notin {"user_perm", "user_fetch"}
BotStageOver(i) ==
    /\ UserStageOver(i)
    /\ result[i].kind # "MissingUserPermissions"
    /\ pc[i] \notin {"bot_perm", "bot_fetch"}
StageOver(i, stage) == IF stage = "user" THEN UserStageOver(i) ELSE BotStageOver(i)

\* C5: with an empty requirement a permission stage passes and the resolver is
\* not invoked for it.  For the user stage when required_permissions is empty,
\* and for the bot stage when required_bot_permissions is empty: the only call
\* the record holds for the stage is missing_permissions answering Some(empty)
\* (no user_permissions, no cache lookup, no get_member), the invocation is never
\* suspended in the stage's member fetch, never denied by the stage, and once
\* the stage is over it has answered Some(empty).
C5_EmptyRequirementSkipsResolver ==
    \A i \in observed : \A stage \in {"user", "bot"} :
        StageRequired(stage) = {} =>
            /\ \A k \in StageCalls(calls[i], stage) :
                  /\ calls[i][k][1] = "missing_permissions"
                  /\ calls[i][k][3] = Some({})
            /\ pc[i] # stage \o "_fetch"
            /\ result[i].kind # StageDenial(stage)
            /\ StageOver(i, stage) =>
                  Answers(calls[i], "missing_permissions", stage) = {Some({})}
\* The user stage has passed on an empty requirement in a guild the cache does
\* not hold, where the resolver would have answered None.
C5_Witness ==
    /\ cmd.required_permissions = {}
    /\ pc[1] = "bot_perm"
    /\ ctx[1].guild_id # None /\ ~CacheGuild(cache, ctx[1].guild_id)
    /\ calls[1] = << <<"missing_permissions", "user", Some({})>> >>

\* C6: in a direct message (guild_id = None) the user-permission stage always
\* passes, whatever required_permissions is: the invocation is never denied
\* with MissingUserPermissions; when the resolver runs for the user it returns
\* the full permission set, so the missing set is empty, and it asks neither the
\* cache nor the remote fetch.
C6_DirectMessagePasses ==
    \A i \in observed :
        Running(i) /\ ctx[i].guild_id = None =>
            /\ result[i].kind # "MissingUserPermissions"
            /\ pc[i] # "user_fetch"
            /\ \A k \in StageCalls(calls[i], "user") :
                  calls[i][k][1] \in
                      {"user_permissions", "user_permissions_ret", "missing_permissions"}
            /\ Answers(calls[i], "user_permissions_ret", "user") \subseteq {Some(Perms)}
            /\ UserStageOver(i) =>
                  Answers(calls[i], "missing_permissions", "user") = {Some({})}
C6_Witness ==
    /\ ctx[1].guild_id = None
    /\ cmd.required_permissions = Perms
    /\ pc[1] = "bot_perm"
    /\ Answers(calls[1], "user_permissions_ret", "user") = {Some(Perms)}

\* The guild of invocation i is absent from the cache.
GuildAbsent(i) == ctx[i].guild_id # None /\ ~CacheGuild(cache, ctx[i].guild_id)

\* C7 as stated: if the guild of the invocation is absent from the local cache,
\* the user-permission stage denies with MissingUserPermissions { None }.
C7_AbsentGuildDenies ==
    \A i \in observed :
        GuildAbsent(i) /\ UserStageOver(i) =>
            pc[i] = "done" /\ result[i] = MissingUserPermissions(None)

\* C7, amended: if the guild of the invocation is absent from the local cache
\* and required_permissions is not empty, the user-permission stage denies with
\* MissingUserPermissions { None }, on the cache's answer alone.
C7_AbsentGuildDeniesRequired ==
    \A i \in observed :
        /\ GuildAbsent(i) /\ UserStageOver(i)
        /\ cmd.required_permissions # {}
        => /\ pc[i] = "done"
           /\ result[i] = MissingUserPermissions(None)
           /\ calls[i] = << <<"user_permissions", "user", ctx[i].guild_id>>,
                            <<"cache.guild", "user", FALSE>>,
                            <<"user_permissions_ret", "user", None>>,
                            <<"missing_permissions", "user", None>> >>
C7_Witness ==
    /\ GuildAbsent(1)
    /\ result[1] = MissingUserPermissions(None)
    /\ Answers(calls[1], "cache.guild", "user") = {FALSE}

\* C8: the cooldown window, for invocations that passed stages 1 to 4, with the
\* per-user window D = UserWindow and t the clock the tracker reads.  The query
\* of an invocation by user u at time t denies with CooldownHit { D - (t - t0) }
\* exactly when u's last committed invocation was at t0 with t - t0 < D, and
\* otherwise lets the invocation pass to the commit; both leave the tracker as
\* it is.  The commit returns Ok and records its clock reading as u's new
\* last-invocation time, leaving every other user's alone.
C8_CooldownWindow ==
    [][\A i \in observed :
        LET u == ctx[i].author
            last == cooldowns.user_invocations[u]
        IN /\ pc[i] = "cd_query" /\ pc'[i] # "cd_query" =>
                /\ PassedAll(i, calls'[i]) \/ pc'[i] = "done"
                /\ cooldowns' = cooldowns
                /\ IF last # None /\ now - last[1] < UserWindow
                   THEN /\ pc'[i] = "done"
                        /\ result'[i] = CooldownHit(UserWindow - (now - last[1]))
                   ELSE /\ pc'[i] = "cd_lock2"
                        /\ result'[i] = NoResult
           /\ pc[i] = "cd_commit" /\ pc'[i] # "cd_commit" =>
                /\ pc'[i] = "done"
                /\ result'[i] = OkResult
                /\ cooldowns' = [cooldowns EXCEPT !.user_invocations[u] = Some(now)]
      ]_vars
\* A denial strictly inside the window, after time has passed since the commit.
C8_Witness ==
    /\ pc[1] = "done"
    /\ result[1].kind = "CooldownHit"
    /\ cooldowns.user_invocations[ctx[1].author] # None
    /\ now > cooldowns.user_invocations[ctx[1].author][1]
    /\ result[1].remaining_cooldown
          = UserWindow - (now - cooldowns.user_invocations[ctx[1].author][1])

\* C9: an invocation denied with CooldownHit does not reset, extend or consume
\* the cooldown: the step in which an invocation is denied with CooldownHit
\* leaves the whole tracker, and with it the recorded last-invocation time of
\* its key, unchanged, however many invocations are denied inside the window.
C9_HitLeavesTimestamp ==
    [][\A i \in Invocations :
          result[i] = NoResult /\ result'[i].kind = "CooldownHit"
              => cooldowns' = cooldowns]_vars
\* Two attempts of one user denied inside the same window.
C9_Witness ==
    /\ result[1].kind = "CooldownHit"
    /\ result[2].kind = "CooldownHit"
    /\ ctx[1].author = ctx[2].author

Suspended(i) == pc[i] \in {"user_fetch", "bot_fetch", "check_wait"}

\* C10: the cooldown lock is never held across a suspension point.  An
\* invocation suspended in the remote member fetch (for the user or for the bot)
\* or in the custom check does not hold the tracker's mutex; the holder, when
\* there is one, is inside the query or the commit statement, which do not
\* suspend.
C10_NoLockAcrossSuspension ==
    /\ \A i \in Invocations : Suspended(i) => mutex # i
    /\ mutex # 0 => pc[mutex] \in {"cd_query", "cd_commit"}
\* One invocation holds the lock while the other is suspended in its check.
C10_Witness ==
    /\ pc[1] = "check_wait"
    /\ mutex = 2
    /\ pc[2] = "cd_commit"


C11_SuspendedHasNotCommitted ==
    \A i \in observed :
        Suspended(i) =>
            /\ StageCalls(calls[i], "cooldown") = {}
            /\ result[i] = NoResult
            /\ mutex # i
C11_CommitIsLast ==
    \A i \in observed :
        /\ Made(calls[i], "remaining_cooldown", "cooldown") # {} =>
               pc[i] \in {"cd_lock2", "cd_commit", "done"}
        /\ Made(calls[i], "start_cooldown", "cooldown") # {} =>
               /\ pc[i] = "done"
               /\ result[i] = OkResult
               /\ calls[i][Len(calls[i])][1] = "start_cooldown"
C11_CancelStep ==
    [][/\ \A i \in Invocations :
            pc[i] # "idle" /\ pc'[i] = "idle" /\ result[i] = NoResult =>
                /\ Suspended(i)
                /\ cooldowns' = cooldowns
                /\ mutex' = mutex
       /\ cooldowns' # cooldowns =>
            \E i \in Invocations :
                pc[i] = "cd_commit" /\ pc'[i] = "done" /\ result'[i] = OkResult
      ]_vars

\* C11: cancellation safety.  An invocation can be dropped only while it is
\* suspended in a member fetch or in the custom check; an invocation suspended
\* there has made no call of the cooldown tracker, holds no lock and has no
\* result, and the step that drops it leaves the tracker and the lock as they
\* are.  The tracker changes only in the commit step, which is the step that
\* returns Ok: start_cooldown is the last call of the record, and from the
\* query on the invocation is at no suspension point.
C11_CancellationSafe ==
    /\ []C11_SuspendedHasNotCommitted
    /\ []C11_CommitIsLast
    /\ C11_CancelStep
\* An invocation suspended in its last suspension point, the custom check,
\* where it can be dropped; its author has no cooldown recorded.
C11_Witness ==
    /\ pc[1] = "check_wait"
    /\ ENABLED Cancel(1)
    /\ cooldowns.user_invocations[ctx[1].author] = None
    /\ Made(calls[1], "check", "check") # {}


\* The custom-check stage of invocation i is over.
CheckStageOver(i) ==
    \/ result[i].kind \in {"CommandCheckFailed", "Command", "CooldownHit", "Ok"}
    \/ pc[i] \in {"cd_lock1", "cd_query", "cd_lock2", "cd_commit"}

\* C12: custom check selection.  Every check an invocation calls is the
\* command's own check when the command has one, and the framework-wide check
\* when the command has none and the framework has one; at most one check is
\* called and it returns at most once.  Once the stage is over, a check has
\* been called exactly when one of the two is configured; with neither
\* configured the stage passed without a call and without a denial of its own.
C12_CheckSelection ==
    \A i \in observed :
        LET called == Answers(calls[i], "check", "check")
            n == Cardinality(Made(calls[i], "check", "check"))
        IN /\ n <= 1
           /\ Cardinality(Made(calls[i], "check_ret", "check")) <= n
           /\ cmd.check # None => called \subseteq {cmd.check[1]}
           /\ cmd.check = None /\ options.command_check # None =>
                  called \subseteq {options.command_check[1]}
           /\ cmd.check = None /\ options.command_check = None =>
                  /\ called = {}
                  /\ result[i].kind \notin {"CommandCheckFailed", "Command"}
           /\ CheckStageOver(i) =>
                  (n = 1 <=> (cmd.check # None \/ options.command_check # None))
\* Both checks are configured and the command's own is the one called.
C12_Witness ==
    /\ cmd.check # None
    /\ options.command_check # None
    /\ cmd.check[1] # options.command_check[1]
    /\ pc[1] = "check_wait"
    /\ Answers(calls[1], "check", "check") = {cmd.check[1]}


\* C13: custom check outcomes.  A check that returned Ok(false) has made the
\* invocation return CommandCheckFailed; one that returned Err(e) has made it
\* return Command with that same error e and location Check; one that returned
\* Ok(true) has let it continue to the cooldown stage, so that its result, if
\* any, is CooldownHit or Ok.  Conversely CommandCheckFailed and Command are
\* returned only after such a return of the check.
C13_CheckOutcomes ==
    \A i \in observed :
        LET rets == Answers(calls[i], "check_ret", "check")
        IN /\ \A r \in rets :
                IF ~IsOk(r)
                THEN /\ pc[i] = "done"
                     /\ result[i].kind = "Command"
                     /\ result[i].error = r[2]
                     /\ result[i].location = "Check"
                     /\ StageCalls(calls[i], "cooldown") = {}
                ELSE IF r[2] = FALSE
                THEN /\ pc[i] = "done"
                     /\ result[i] = CommandCheckFailed
                     /\ StageCalls(calls[i], "cooldown") = {}
                ELSE /\ pc[i] \in {"cd_lock1", "cd_query", "cd_lock2", "cd_commit", "done"}
                     /\ result[i].kind \in {NoResult.kind, "CooldownHit", "Ok"}
           /\ result[i].kind = "CommandCheckFailed" => rets = {Ok(FALSE)}
           /\ result[i].kind = "Command" =>
                  /\ result[i].location = "Check"
                  /\ rets = {Err(result[i].error)}
\* The check returned the error e2, which the invocation hands on.
C13_Witness ==
    /\ pc[1] = "done"
    /\ Answers(calls[1], "check_ret", "check") = {Err("e2")}
    /\ result[1] = CommandError("e2")


\* The one answer of a stage in the record, or a marker when the stage has no
\* answer there.
StageAnswer(log, name, stage) ==
    IF Cardinality(Answers(log, name, stage)) = 1
    THEN CHOOSE a \in Answers(log, name, stage) : TRUE
    ELSE "unanswered"
\* The stages in their order, each with the calls the record may hold once the
\* stage has denied: none of any later stage.
LaterStages(stage) ==
    CASE stage = "owner" -> {"user", "bot", "check", "cooldown"}
      [] stage = "user" -> {"bot", "check", "cooldown"}
      [] stage = "bot" -> {"check", "cooldown"}
      [] stage = "check" -> {"cooldown"}
      [] stage = "cooldown" -> {}
NoLaterCalls(log, stage) == \A s \in LaterStages(stage) : StageCalls(log, s) = {}
\* The outcome read off the answers of the record, stage after stage.
FirstFailure(i) ==
    LET log == calls[i]
        um == StageAnswer(log, "missing_permissions", "user")
        bm == StageAnswer(log, "missing_permissions", "bot")
        cr == StageAnswer(log, "check_ret", "check")
        checked == Made(log, "check", "check") # {}
        rc == StageAnswer(log, "remaining_cooldown", "cooldown")
        unknown == [kind |-> "unknown"]
    IN IF IsOwnerDenied(i)
       THEN IF NoLaterCalls(log, "owner") THEN NotAnOwner ELSE unknown
       ELSE IF um = "unanswered" THEN unknown
       ELSE IF um # Some({})
       THEN IF NoLaterCalls(log, "user") THEN MissingUserPermissions(um) ELSE unknown
       ELSE IF bm = "unanswered" THEN unknown
       ELSE IF bm # None /\ bm # Some({})
       THEN IF NoLaterCalls(log, "bot") THEN MissingBotPermissions(bm[1]) ELSE unknown
       ELSE IF checked /\ cr = "unanswered" THEN unknown
       ELSE IF checked /\ ~IsOk(cr)
       THEN IF NoLaterCalls(log, "check") THEN CommandError(cr[2]) ELSE unknown
       ELSE IF checked /\ cr[2] = FALSE
       THEN IF NoLaterCalls(log, "check") THEN CommandCheckFailed ELSE unknown
       ELSE IF ~checked /\ SelectCheck(cmd.check, options.command_check) # None
       THEN unknown
       ELSE IF rc = "unanswered" THEN unknown
       ELSE IF rc # None THEN CooldownHit(rc[1])
       ELSE IF Made(log, "start_cooldown", "cooldown") # {} THEN OkResult
       ELSE unknown

\* C14: the outcome is that of the first failing stage, in the order
\* ownership, user permissions, bot permissions, custom check, cooldown.  An
\* invocation has a result exactly when it has returned, and then only one: the
\* denial of the earliest stage whose answer in the record fails, with every
\* earlier stage answered as passed and no later stage called; and Ok exactly
\* when all five stages are answered as passed and the cooldown was started.
C14_FirstFailingStage ==
    \A i \in observed :
        /\ pc[i] = "done" <=> result[i] # NoResult
        /\ pc[i] = "done" => result[i] = FirstFailure(i)
        /\ result[i] = OkResult <=>
               /\ PassedAll(i, calls[i])
               /\ Made(calls[i], "start_cooldown", "cooldown") # {}
\* The bot stage denies after the ownership and user-permission stages passed,
\* on a command whose check and cooldown were never reached.
C14_Witness ==
    /\ pc[1] = "done"
    /\ cmd.owners_only
    /\ cmd.check # None
    /\ Answers(calls[1], "missing_permissions", "user") = {Some({})}
    /\ result[1].kind = "MissingBotPermissions"
    /\ StageCalls(calls[1], "check") = {}


C15_NoSelfDeadlock ==
    \A i \in Invocations : pc[i] \in {"cd_lock1", "cd_lock2"} => mutex # i
C15_Terminates ==
    \A i \in Invocations :
        (pc[i] \notin {"idle", "done"}) ~> (pc[i] = "done" /\ result[i] # NoResult)

Waiting(i) == pc[i] \in {"cd_lock1", "cd_lock2"}
\* An invocation that has begun returns or comes to wait for the mutex.
C15_ReachesLock ==
    \A i \in Invocations :
        (pc[i] \notin {"idle", "done"}) ~> (pc[i] = "done" \/ Waiting(i))
\* A holder gives the mutex back, having made its one tracker call.
C15_Releases ==
    \A i \in Invocations : (mutex = i) ~> (mutex # i)
\* No invocation runs on for ever, or waits at a mutex that stays free, without
\* another invocation taking the mutex again and again.
C15_ReturnsUnlessOvertaken ==
    \A i \in Invocations :
        []<>(pc[i] \in {"idle", "done"} \/ \E j \in Invocations \ {i} : mutex = j)

C16_SuccessesWindowApart ==
    [][\A i \in Invocations :
          pc[i] = "cd_commit" /\ pc'[i] = "done" /\ result'[i] = OkResult =>
              LET last == cooldowns.user_invocations[ctx[i].author]
              IN last = None \/ now - last[1] >= UserWindow]_vars


\* Some call of the given name and stage before position k answered within vals.
AnsweredBefore(log, k, name, stage, vals) ==
    \E j \in Made(log, name, stage) : j < k /\ log[j][3] \in vals
UserPassedBefore(log, k) ==
    AnsweredBefore(log, k, "missing_permissions", "user", {Some({})})
BotPassedBefore(log, k) ==
    AnsweredBefore(log, k, "missing_permissions", "bot", {Some({}), None})
CheckPassedBefore(log, k) ==
    \/ /\ SelectCheck(cmd.check, options.command_check) = None
       /\ StageCalls(log, "check") = {}
    \/ \E j \in Made(log, "check_ret", "check") :
           j < k /\ IsOk(log[j][3]) /\ log[j][3][2]

\* C17: no stage runs after an earlier stage denied.  In the record of every
\* invocation, each call made for the bot's permissions comes after the
\* user-permission stage answered that nothing is missing; each call of the
\* custom check comes after that and after the bot-permission stage passed;
\* each call of the cooldown tracker comes after those and after the check
\* returned true, or with no check configured.  An invocation denied by the
\* ownership stage has made no call at all, and whoever waits for or holds the
\* tracker's mutex has passed stages 1 to 4.
C17_NoStageAfterDenial ==
    \A i \in observed :
        LET log == calls[i]
            end == Len(log) + 1
        IN /\ IsOwnerDenied(i) => log = <<>>
           /\ \A k \in StageCalls(log, "bot") : UserPassedBefore(log, k)
           /\ \A k \in StageCalls(log, "check") :
                  UserPassedBefore(log, k) /\ BotPassedBefore(log, k)
           /\ \A k \in StageCalls(log, "cooldown") :
                  /\ UserPassedBefore(log, k)
                  /\ BotPassedBefore(log, k)
                  /\ CheckPassedBefore(log, k)
           /\ pc[i] \in {"bot_perm", "bot_fetch"} => UserPassedBefore(log, end)
           /\ pc[i] \in {"check", "check_wait"} =>
                  UserPassedBefore(log, end) /\ BotPassedBefore(log, end)
           /\ pc[i] \in {"cd_lock1", "cd_query", "cd_lock2", "cd_commit"} \/ mutex = i =>
                  /\ ~IsOwnerDenied(i)
                  /\ UserPassedBefore(log, end)
                  /\ BotPassedBefore(log, end)
                  /\ CheckPassedBefore(log, end)
\* The tracker is locked for the query by an invocation whose bot permissions
\* were unknown and whose check returned true.
C17_Witness ==
    /\ pc[1] = "cd_query"
    /\ mutex = 1
    /\ Answers(calls[1], "missing_permissions", "bot") = {None}
    /\ Answers(calls[1], "check_ret", "check") = {Ok(TRUE)}


Count(log, name, stage) == Cardinality(Made(log, name, stage))
\* What the record of one resolution says of the resolver's rules.
ResolverRules(i, stage) ==
    LET log == calls[i]
        A(name) == Answers(log, name, stage)
        N(name) == Count(log, name, stage)
        ret == A("user_permissions_ret")
    IN /\ \A name \in ResolverInternal \cup {"user_permissions"} : N(name) <= 1
       /\ A("cache.guild") \subseteq {CacheGuild(cache, ctx[i].guild_id)}
       /\ N("get_member") = 1 =>
              /\ A("user_permissions") # {None}
              /\ A("cache.guild") = {TRUE}
              /\ A("channels.get") = {"Guild"}
              /\ A("members.get") = {FALSE}
       /\ A("members.get") = {FALSE} => N("get_member") = 1
       /\ N("get_member_ret") <= N("get_member")
       /\ ret # {} =>
              IF A("user_permissions") = {None}
              THEN ret = {Some(PermissionsAll)} /\ N("cache.guild") = 0
              ELSE IF A("cache.guild") # {TRUE}
              THEN ret = {None} /\ N("channels.get") = 0 /\ N("get_member") = 0
              ELSE IF A("channels.get") # {"Guild"}
              THEN ret = {None} /\ N("members.get") = 0 /\ N("get_member") = 0
              ELSE IF A("members.get") = {FALSE} /\ A("get_member_ret") # {Ok("member")}
              THEN /\ ret = {None}
                   /\ A("get_member_ret") = {Err("http")}
                   /\ N("user_permissions_in") = 0
              ELSE /\ N("user_permissions_in") = 1
                   /\ \A c \in A("user_permissions_in") :
                          ret = {IF IsOk(c) THEN Some(c[2]) ELSE None}

\* C18: the resolver's rules in a guild.  The result of a resolution is None
\* when the guild is not in the cache, when the channel is absent from the
\* guild's channels or is not a guild channel, when the member is not cached
\* and the fetch fails, and when the computation of the permissions fails;
\* otherwise it is the computed set.  Each rule is reached only past the ones
\* before it; get_member is called exactly when the guild is cached, the
\* channel is a guild channel and the member is not cached, and then once, with
\* no second call after an error.
C18_ResolverRules ==
    \A i \in observed : ResolverRules(i, "user") /\ ResolverRules(i, "bot")
\* The fetch of the bot's member failed once and the resolution ended unknown.
C18_Witness ==
    /\ pc[1] = "check"
    /\ Answers(calls[1], "get_member_ret", "bot") = {Err("http")}
    /\ Count(calls[1], "get_member", "bot") = 1
    /\ Answers(calls[1], "user_permissions_ret", "bot") = {None}


\* m is what required asks for and actual does not hold.
IsMissing(m, required, actual) ==
    /\ m \subseteq required
    /\ m \cap actual = {}
    /\ required \subseteq m \cup actual
\* The payloads of one stage in the record.
ExactDifference(i, stage) ==
    LET rets == Answers(calls[i], "user_permissions_ret", stage)
        missing == Answers(calls[i], "missing_permissions", stage)
    IN \A p \in rets :
           /\ StageRequired(stage) # {}
           /\ p # None /\ missing # {} =>
                  \A m \in missing :
                      m # None /\ IsMissing(m[1], StageRequired(stage), p[1])
           /\ p = None => missing \subseteq {None}

\* C19: missing-permission payloads are exact set differences.  When the
\* resolver returned Some(actual) for a non-empty requirement,
\* missing_permissions returns Some(m) with m inside the requirement, disjoint
\* from actual and holding every required permission actual lacks.  A denial
\* MissingUserPermissions with a set, or MissingBotPermissions, carries such an
\* m, which is not empty; the payload of MissingBotPermissions is always a set.
C19_ExactDifference ==
    \A i \in observed :
        /\ ExactDifference(i, "user")
        /\ ExactDifference(i, "bot")
        /\ result[i].kind = "MissingUserPermissions"
           /\ result[i].missing_permissions # None =>
               /\ result[i].missing_permissions[1] # {}
               /\ \E p \in Answers(calls[i], "user_permissions_ret", "user") :
                      /\ p # None
                      /\ IsMissing(result[i].missing_permissions[1],
                                   cmd.required_permissions, p[1])
        /\ result[i].kind = "MissingBotPermissions" =>
               /\ result[i].missing_permissions \in (SUBSET Perms) \ {{}}
               /\ \E p \in Answers(calls[i], "user_permissions_ret", "bot") :
                      /\ p # None
                      /\ IsMissing(result[i].missing_permissions,
                                   cmd.required_bot_permissions, p[1])
\* Both permissions are required, the user holds p1, and the denial names p2.
C19_Witness ==
    /\ pc[1] = "done"
    /\ cmd.required_permissions = Perms
    /\ Answers(calls[1], "user_permissions_ret", "user") = {Some({"p1"})}
    /\ result[1] = MissingUserPermissions(Some({"p2"}))


\* The outcome of stages 2 to 5 as a function of the collaborators' answers in
\* the record and of the check configured: neither the invoker nor the owner
\* set nor owners_only is among its arguments.
StagesOutcome(log, check) ==
    LET um == StageAnswer(log, "missing_permissions", "user")
        bm == StageAnswer(log, "missing_permissions", "bot")
        cr == StageAnswer(log, "check_ret", "check")
        rc == StageAnswer(log, "remaining_cooldown", "cooldown")
        unknown == [kind |-> "unknown"]
    IN IF um = "unanswered" THEN unknown
       ELSE IF um = None THEN MissingUserPermissions(None)
       ELSE IF um[1] # {} THEN MissingUserPermissions(um)
       ELSE IF bm = "unanswered" THEN unknown
       ELSE IF bm # None /\ bm[1] # {} THEN MissingBotPermissions(bm[1])
       ELSE IF check # None /\ cr = "unanswered" THEN unknown
       ELSE IF check # None /\ ~IsOk(cr) THEN CommandError(cr[2])
       ELSE IF check # None /\ ~cr[2] THEN CommandCheckFailed
       ELSE IF rc = "unanswered" THEN unknown
       ELSE IF rc # None THEN CooldownHit(rc[1])
       ELSE OkResult

\* C20: a configured owner gets no bypass.  An invocation returns NotAnOwner
\* exactly when the command is owners_only and the invoker is no owner, so never
\* on a command that is not owners_only.  In every other case, an owner on any
\* command as much as anybody on a command that is not owners_only, the
\* user-permission stage has run and the outcome is the one function of the
\* answers of the permission resolver, the check and the tracker, which has no
\* access to who the invoker is: equal answers give an owner and a non-owner
\* equal outcomes.
C20_OwnerNoBypass ==
    \A i \in observed :
        pc[i] = "done" =>
            /\ result[i] = NotAnOwner <=>
                   cmd.owners_only /\ ctx[i].author \notin options.owners
            /\ ~cmd.owners_only => result[i].kind # "NotAnOwner"
            /\ ctx[i].author \in options.owners \/ ~cmd.owners_only =>
                   /\ Count(calls[i], "missing_permissions", "user") = 1
                   /\ result[i] = StagesOutcome(calls[i],
                                     SelectCheck(cmd.check, options.command_check))
\* An owner is denied for missing permissions on an owners_only command.
C20_Witness ==
    /\ pc[1] = "done"
    /\ cmd.owners_only
    /\ ctx[1].author \in options.owners
    /\ result[1].kind = "MissingUserPermissions"

====
